---------------------------- MODULE Spec2Model ----------------------------
(***************************************************************************)
(* Model of LandmarkConverter.cpp: main, the two readers (readLandmarksIx, *)
(* readLandmarksIreg) and the three writers.  Documents are sequences of   *)
(* whitespace-separated tokens (strings); a C++ std::string is a TLA+      *)
(* string and the std::string / iostream operations the program uses are   *)
(* operators computed as the library computes them.  A double is modelled  *)
(* by an integer: every numeral of the documents below is whole.           *)
(***************************************************************************)
EXTENDS Integers, Sequences, FiniteSets, TLC

(***************************************************************************)
(* Bounds of the model.                                                    *)
(***************************************************************************)
MaxPoints == 2
MaxIregPoints == 2

(***************************************************************************)
(* Program constants.                                                      *)
(***************************************************************************)
NUM_DIMS == 3

Min(a, b) == IF a < b THEN a ELSE b

\* F(x), with x evaluated once however often F refers to its argument.
Once(F(_), x) == CHOOSE r \in {F(v) : v \in {x}} : TRUE

(***************************************************************************)
(* std::string operations.                                                 *)
(***************************************************************************)
Digits == <<"0", "1", "2", "3", "4", "5", "6", "7", "8", "9">>

IsDigit(c) == \E i \in 1..10 : Digits[i] = c

DigitVal(c) == (CHOOSE i \in 1..10 : Digits[i] = c) - 1

\* s[i] for 0 <= i < s.size(); s[s.size()] is the terminating '\0'.
CharAt(s, i) == IF i < Len(s) THEN SubSeq(s, i + 1, i + 1) ELSE ""

\* s.compare(pos, len, t) throws std::out_of_range when pos > s.size().
CompareThrows(s, pos) == pos > Len(s)

\* s.compare(pos, len, t) == 0, for pos <= s.size().
CompareAt(s, pos, len, t) == SubSeq(s, pos + 1, Min(pos + len, Len(s))) = t

\* s.erase(0, n)
Erase(s, n) == SubSeq(s, Min(n, Len(s)) + 1, Len(s))

RECURSIVE DigitsValue(_, _, _)
DigitsValue(s, i, acc) ==
    IF i <= Len(s) /\ IsDigit(SubSeq(s, i, i))
    THEN DigitsValue(s, i + 1, acc * 10 + DigitVal(SubSeq(s, i, i)))
    ELSE acc

\* atoi: an optional sign, then the leading decimal digits; 0 when none.
atoi(s) ==
    IF Len(s) > 0 /\ SubSeq(s, 1, 1) = "-" THEN 0 - DigitsValue(s, 2, 0)
    ELSE IF Len(s) > 0 /\ SubSeq(s, 1, 1) = "+" THEN DigitsValue(s, 2, 0)
    ELSE DigitsValue(s, 1, 0)

\* atof on the numerals of the documents (whole values, fraction digits 0):
\* the integer part; no leading digits gives 0.0.
atof(s) == atoi(s)

RECURSIVE IntStr(_)
IntStr(n) == IF n < 10 THEN Digits[n + 1]
             ELSE IntStr(n \div 10) \o Digits[(n % 10) + 1]

\* Mutant of Reverse: the final reversal left out.
ReverseNone(v) == v

\* Mutant of Reverse: whole triples reversed, the scalars of a triple kept
\* in their order.
ReverseTriples(v) ==
    [i \in 1..Len(v) |->
        IF Len(v) % 3 = 0
        THEN v[Len(v) - 3 * ((i - 1) \div 3) - 3 + ((i - 1) % 3) + 1]
        ELSE v[Len(v) + 1 - i]]

\* std::reverse(v.begin(), v.end())
Reverse(v) == [i \in 1..Len(v) |-> v[Len(v) + 1 - i]]

(***************************************************************************)
(* An input stream over a document: toks are its tokens, ws tells whether  *)
(* whitespace follows the last token.  pos is the next token to read.      *)
(***************************************************************************)
ClosedStream == [pos |-> 1, eof |-> FALSE, fail |-> TRUE]

OpenStream(opens) == [pos |-> 1, eof |-> FALSE, fail |-> ~opens]

\* stream >> str: the stream after the extraction.
ExtractStream(st, doc) ==
    IF st.eof \/ st.fail THEN [st EXCEPT !.fail = TRUE]
    ELSE IF st.pos > Len(doc.toks) THEN [st EXCEPT !.eof = TRUE, !.fail = TRUE]
    ELSE [pos |-> st.pos + 1,
          eof |-> (st.pos = Len(doc.toks) /\ ~doc.ws),
          fail |-> FALSE]

\* stream >> str: the string after the extraction (unchanged on failure).
ExtractLine(st, doc, line) ==
    IF st.eof \/ st.fail \/ st.pos > Len(doc.toks) THEN line
    ELSE doc.toks[st.pos]


(***************************************************************************)
(* The documents of the model.                                             *)
(*                                                                         *)
(* A point-pair document is built from a descriptor: the digit width w of  *)
(* the point numbers, the kind of the first path line, and one record per  *)
(* point (ManuallyChosen and VeryUnsure values, SystemGuess tokens present *)
(* or not).  Its tokens are those readLandmarksIx consumes: two path       *)
(* lines, then per point Distinctiveness, ManuallyChosen, SqDiffRegion,    *)
(* VeryUnsure and, per axis, the fixed and the corresponding (moving)      *)
(* voxel coordinate, each axis followed by its SystemGuess when present.   *)
(***************************************************************************)
PointNum(w, p) == IF w = 3 THEN "00" \o IntStr(p)
                  ELSE IF w = 2 THEN "0" \o IntStr(p)
                  ELSE IntStr(p)

PointKey(w, p) == "Point_" \o PointNum(w, p) \o "->"

\* The voxel coordinates written in the document for point p, axis a.
FixedVoxel(p, a) == 10 * (p + 1) + a
MovingVoxel(p, a) == 10 * (p + 1) + a + 5

AxisTokens(w, p, a, sg) ==
    << PointKey(w, p) \o IntStr(a) \o "=" \o IntStr(FixedVoxel(p, a)),
       PointKey(w, p) \o IntStr(a) \o "_Corresp=" \o IntStr(MovingVoxel(p, a)) >>
    \o (IF sg THEN << PointKey(w, p) \o IntStr(a) \o "_SystemGuess=99" >>
        ELSE << >>)

RecordTokens(w, p, rec) ==
    << PointKey(w, p) \o "Distinctiveness=3",
       PointKey(w, p) \o "ManuallyChosen=" \o rec.man,
       PointKey(w, p) \o "SqDiffRegion=4",
       PointKey(w, p) \o "VeryUnsure=" \o rec.unsure >>
    \o AxisTokens(w, p, 0, rec.sg)
    \o AxisTokens(w, p, 1, rec.sg)
    \o AxisTokens(w, p, 2, rec.sg)

RECURSIVE RecordsTokens(_, _, _)
RecordsTokens(w, recs, n) ==
    IF n = 0 THEN << >>
    ELSE RecordsTokens(w, recs, n - 1) \o RecordTokens(w, n - 1, recs[n])

FixedPathLine(hdr) ==
    IF hdr = "Z" THEN "Scan_0=Z:\\data\\fixed.mhd"
    ELSE IF hdr = "X" THEN "Scan_0=X:\\data\\fixed.mhd"
    ELSE "Scan_0=/data/fixed.mhd"

MovingPathLine == "Scan_1=/data/moving.mhd"

IxTokens(d) ==
    << FixedPathLine(d.hdr), MovingPathLine >>
    \o RecordsTokens(d.w, d.recs, Len(d.recs))

IxRecs == [man : {"0", "1"}, unsure : {"0", "1"}, sg : BOOLEAN]

IxRecSeqs == UNION {[1..n -> IxRecs] : n \in 0..MaxPoints}

\* Every combination of records, with one-digit point numbers and a plain
\* path line.
IxDescs ==
    {[kind |-> "ix", w |-> 1, hdr |-> "/", recs |-> rs, ws |-> ws] :
        rs \in IxRecSeqs, ws \in BOOLEAN}

\* The other digit widths and path lines, and the document without points.
IxVariantDescs ==
    {[kind |-> "ix", w |-> w, hdr |-> hdr, ws |-> TRUE,
      recs |-> << [man |-> "1", unsure |-> "1", sg |-> TRUE],
                  [man |-> "0", unsure |-> "0", sg |-> FALSE] >>] :
        w \in {2, 3}, hdr \in {"Z", "X"}}
    \cup
    {[kind |-> "ix", w |-> 1, hdr |-> "/", ws |-> TRUE, recs |-> << >>]}

(***************************************************************************)
(* A registration-list document: an optional leading count token, 3n       *)
(* coordinate tokens, an optional trailing token "#".  The scenario        *)
(* document is the one of the specification's example.                     *)
(***************************************************************************)
IregCoord(i) == i + 10

RECURSIVE IregCoordTokens(_)
IregCoordTokens(k) ==
    IF k = 0 THEN << >>
    ELSE IregCoordTokens(k - 1) \o << IntStr(IregCoord(k)) \o ".0" >>

ScenarioTokens == << "1", "0.0", "0.0", "0.0", "1.0", "1.0", "1.0", "#" >>

IregTokens(d) ==
    IF d.scenario THEN ScenarioTokens
    ELSE (IF d.count THEN << IntStr(d.n) >> ELSE << >>)
         \o IregCoordTokens(NUM_DIMS * d.n)
         \o (IF d.artifact THEN << "#" >> ELSE << >>)

IregDescs ==
    {[kind |-> "ireg", scenario |-> FALSE, count |-> c, n |-> n,
      artifact |-> a, ws |-> ws] :
        c \in BOOLEAN, n \in 0..MaxIregPoints, a \in BOOLEAN, ws \in BOOLEAN}
    \cup
    {[kind |-> "ireg", scenario |-> TRUE, count |-> TRUE, n |-> 1,
      artifact |-> TRUE, ws |-> ws] : ws \in BOOLEAN}

(***************************************************************************)
(* A point-pair document with a fault: one token of the first record of a  *)
(* valid document is replaced, either by a token of the usual length whose *)
(* key is wrong, or by a token shorter than the point prefix.              *)
(***************************************************************************)
FaultAt == [man |-> 4, unsure |-> 6, coord |-> 7]

FaultToken(fault) == IF fault = "short" THEN "x" ELSE "Point_0->Wrong=1"

IxFaultTokens(d) ==
    LET t == IxTokens(d)
    IN [i \in 1..Len(t) |-> IF i = FaultAt[d.at] THEN FaultToken(d.fault) ELSE t[i]]

IxFaultDescs ==
    {[kind |-> "ix_fault", w |-> 1, hdr |-> "/", ws |-> TRUE,
      recs |-> << [man |-> "1", unsure |-> "0", sg |-> FALSE],
                  [man |-> "0", unsure |-> "0", sg |-> FALSE] >>,
      at |-> at, fault |-> f] :
        at \in {"man", "unsure", "coord"}, f \in {"key", "short"}}

(***************************************************************************)
(* A truncated point-pair document: a complete record, then the first cut  *)
(* tokens of a second record (1: Distinctiveness, 2: ManuallyChosen,       *)
(* 3: SqDiffRegion, 4: VeryUnsure, 5 to 9: coordinates).                   *)
(***************************************************************************)
IxTruncTokens(d) == SubSeq(IxTokens(d), 1, 12 + d.cut)

IxTruncDescs ==
    {[kind |-> "ix_trunc", w |-> 1, hdr |-> "/", ws |-> ws,
      recs |-> << [man |-> "0", unsure |-> "0", sg |-> FALSE],
                  [man |-> m, unsure |-> u, sg |-> FALSE] >>,
      cut |-> c] :
        ws \in BOOLEAN, m \in {"0", "1"}, u \in {"0", "1"}, c \in 1..9}

DocOf(d) == [toks |-> IF d.kind = "ix" THEN IxTokens(d)
                      ELSE IF d.kind = "ix_fault" THEN IxFaultTokens(d)
                      ELSE IF d.kind = "ix_trunc" THEN IxTruncTokens(d)
                      ELSE IregTokens(d),
             ws |-> d.ws]

(***************************************************************************)
(* The image metadata documents on disk, as lines; nl tells whether the    *)
(* last line ends with a newline.                                          *)
(***************************************************************************)
FixedMhdLines == << "ObjectType = Image",
                    "DimSize = 40 50 60",
                    "Offset = 7 11 13",
                    "ElementSpacing = 2 3 5",
                    "ElementDataFile = fixed.raw" >>

MovingMhdLines == << "ObjectType = Image",
                     "DimSize = 41 51 61",
                     "Offset = 1 1 1",
                     "ElementSpacing = 4 4 4",
                     "ElementDataFile = moving.raw" >>

MhdPaths == {"/data/fixed.mhd", "/rdo/home/cguy/data/fixed.mhd",
             "/rdo/home/cguy/ix/data/fixed.mhd", "/data/moving.mhd"}

\* Orders of the lines of the fixed image's metadata document: the order
\* above, each of the three geometry lines last, and the geometry lines
\* alone.
MhdOrders == << << 1, 2, 3, 4, 5 >>,
                << 1, 5, 3, 4, 2 >>,
                << 2, 1, 4, 5, 3 >>,
                << 5, 3, 2, 1, 4 >>,
                << 4, 3, 2 >> >>

MhdLinesIn(order) == [i \in 1..Len(order) |-> FixedMhdLines[order[i]]]

MhdVariants == [order : 1..Len(MhdOrders), nl : BOOLEAN]

PlainMhd == [order |-> 1, nl |-> TRUE]


(***************************************************************************)
(* Output documents: the sequence of items written with operator<<, a      *)
(* literal text or a number.                                               *)
(***************************************************************************)
Lit(s) == [k |-> s, v |-> 0]

Num(n) == [k |-> "num", v |-> n]

NL == Lit("\n")

(***************************************************************************)
(* The file name of the input path without directory and extension, as    *)
(* each writer computes it: a scan from the end of the path for the first  *)
(* slash or backslash and the first period.                                *)
(***************************************************************************)
RECURSIVE ScanPath(_, _, _)
ScanPath(dirName, k, found) ==
    Once(LAMBDA fnd :
            IF k < 0 THEN fnd
            ELSE LET c == CharAt(dirName, k)
                     slash == c = "\\" \/ c = "/"
                     f1 == IF fnd.fileNameFound /\ slash
                           THEN [fnd EXCEPT !.startParentDir = k + 1]
                           ELSE IF ~fnd.fileNameFound /\ slash
                           THEN [fnd EXCEPT !.startFileName = k + 1,
                                            !.fileNameFound = TRUE]
                           ELSE fnd
                     f2 == IF ~f1.extensionFound /\ c = "."
                           THEN [f1 EXCEPT !.startExtension = k,
                                           !.extensionFound = TRUE]
                           ELSE f1
                 IN ScanPath(dirName, k - 1, f2),
         found)

FileName(path) ==
    LET found == ScanPath(path, Len(path),
                          [fileNameFound |-> FALSE, extensionFound |-> FALSE,
                           startFileName |-> 0, startParentDir |-> 0,
                           startExtension |-> 0])
    IN Erase(SubSeq(path, 1, found.startExtension), found.startFileName)

(***************************************************************************)
(* The writers' loops.  v.at(i) throws std::out_of_range when i is not     *)
(* below v.size(); the result of a loop is the items written and whether   *)
(* it threw.                                                               *)
(***************************************************************************)
AtThrows(v, i) == i >= Len(v)

At(v, i) == v[i + 1]

\* Mutant of Append3: the third push_back left out.
Append3Short(v, t) == v \o << t[1], t[2] >>

\* Three push_back calls.
Append3(v, t) == v \o t

\* Mutant of ReversedTriple: the elements in stored order.
ForwardTriple(v, i) == << At(v, i), At(v, i + 1), At(v, i + 2) >>

\* One row of the Transformix lists and of the plain-text file.
ReversedTriple(v, i) == << At(v, i + 2), At(v, i + 1), At(v, i) >>

\* Mutant of SlicerTriple: no sign flip.
SlicerTripleNoFlip(v, i) == << At(v, i + 2), At(v, i + 1), At(v, i) >>

\* The coordinates of one row of the Slicer file.
SlicerTriple(v, i) == << At(v, i + 2) * (0 - 1), At(v, i + 1) * (0 - 1), At(v, i) >>

RECURSIVE TransformixList(_, _, _, _)
TransformixList(v, i, limit, out) ==
    IF ~(i < limit) THEN [items |-> out, threw |-> FALSE]
    ELSE IF AtThrows(v, i + 2) THEN [items |-> out \o << Lit(" ") >>, threw |-> TRUE]
    ELSE LET t == ReversedTriple(v, i)
         IN TransformixList(v, i + 3, limit,
                out \o << Lit(" "), Num(t[1]), Lit(" "), Num(t[2]),
                          Lit(" "), Num(t[3]) >>)

\* Mutant of SlicerRows: every row is followed by a newline.
RECURSIVE SlicerRowsTerminated(_, _, _, _, _)
SlicerRowsTerminated(v, i, numDims, limit, out) ==
    IF ~(i < limit) THEN [items |-> out, threw |-> FALSE]
    ELSE LET head == << Num((i \div numDims) + 1), Lit(", ") >>
         IN IF AtThrows(v, i + 2) THEN [items |-> out \o head, threw |-> TRUE]
            ELSE LET t == SlicerTriple(v, i)
                 IN SlicerRowsTerminated(v, i + 3, numDims, limit,
                        out \o head \o << Num(t[1]), Lit(", "), Num(t[2]),
                                          Lit(", "), Num(t[3]), Lit(", 0, 1"),
                                          NL >>)

RECURSIVE SlicerRows(_, _, _, _, _)
SlicerRows(v, i, numDims, limit, out) ==
    IF ~(i < limit) THEN [items |-> out, threw |-> FALSE]
    ELSE LET head == (IF i # 0 THEN << NL >> ELSE << >>)
                     \o << Num((i \div numDims) + 1), Lit(", ") >>
         IN IF AtThrows(v, i + 2) THEN [items |-> out \o head, threw |-> TRUE]
            ELSE LET t == SlicerTriple(v, i)
                 IN SlicerRows(v, i + 3, numDims, limit,
                        out \o head \o << Num(t[1]), Lit(", "), Num(t[2]),
                                          Lit(", "), Num(t[3]), Lit(", 0, 1") >>)

RECURSIVE TextRows(_, _, _, _)
TextRows(v, i, limit, out) ==
    IF ~(i < limit) THEN [items |-> out, threw |-> FALSE]
    ELSE IF AtThrows(v, i + 2) THEN [items |-> out, threw |-> TRUE]
    ELSE LET t == ReversedTriple(v, i)
         IN TextRows(v, i + 3, limit,
                out \o << Num(t[1]), Lit(" "), Num(t[2]), Lit(" "),
                          Num(t[3]), NL >>)

SlicerHeader(p) ==
    << Lit("# name = lmk\n"), Lit("# numPoints = "), Num(p.numPoints), NL,
       Lit("# symbolScale = 5.5\n"), Lit("# symbolType = 11\n"),
       Lit("# visibility = 1\n"), Lit("# textScale = 12.5\n"),
       Lit("# color = 0.4,1,1\n"),
       Lit("# selectedColor = 0.807843,0.560784,1\n"),
       Lit("# opacity = 1\n"), Lit("# ambient = 0\n"), Lit("# diffuse = 1\n"),
       Lit("# specular = 0\n"), Lit("# power = 1\n"), Lit("# locked = 1\n"),
       Lit("# columns = label,x,y,z,sel,vis\n") >>

TextHeader(p) == << Lit("point\n"), Num(p.numPoints), NL >>

TransformixHead(p) ==
    << Lit("(Transform \"SplineKernelTransform\")\n"),
       Lit("(NumberOfParameters "), Num(p.numDims * p.numPoints), Lit(")\n"),
       Lit("(TransformParameters") >>

TransformixImage(p) ==
    << Lit(")\n"), Lit("(InitialTransformParametersFileName"),
       Lit(" \"NoInitialTransform\")\n"),
       Lit("(HowToCombineTransforms \"Compose\")\n\n"),
       Lit("// Image specific\n"), Lit("(FixedImageDimension 3)\n"),
       Lit("(MovingImageDimension 3)\n"),
       Lit("(FixedInternalImagePixelType \"float\")\n"),
       Lit("(MovingInternalImagePixelType \"float\")\n"),
       Lit("(Size "), Lit(p.imgDims), Lit(")\n"), Lit("(Index 0 0 0)\n"),
       Lit("(Spacing "), Num(p.spacings[1]), Lit(" "), Num(p.spacings[2]),
       Lit(" "), Num(p.spacings[3]), Lit(")\n"),
       Lit("(Origin "), Num(p.offsets[1]), Lit(" "), Num(p.offsets[2]),
       Lit(" "), Num(p.offsets[3]), Lit(")\n"),
       Lit("(Direction 1.0000000000 0.0000000000 0.0000000000 "),
       Lit("0.0000000000 1.0000000000 0.0000000000 "),
       Lit("0.0000000000 0.0000000000 1.0000000000)\n"),
       Lit("(UseDirectionCosines \"true\")\n\n"),
       Lit("// SplineKernelTransform specific\n"),
       Lit("(SplineKernelType \"ThinPlateSpline\")\n"),
       Lit("(SplinePoissonRatio 0.0)\n"),
       Lit("(SplineRelaxationFactor 0.0)\n"),
       Lit("(FixedImageLandmarks") >>

TransformixTail ==
    << Lit(")\n\n"), Lit("// ResampleInterpolator specific\n"),
       Lit("(ResampleInterpolator \"FinalBSplineInterpolator\")\n"),
       Lit("(FinalBSplineInterpolationOrder 3)\n\n"),
       Lit("// Resampler specific\n"), Lit("(Resampler \"DefaultResampler\")\n"),
       Lit("(DefaultPixelValue 0.000000)\n"),
       Lit("(ResultImageFormat \"mhd\")\n"),
       Lit("(ResultImagePixelType \"short\")\n"),
       Lit("(CompressResultImage \"false\")\n") >>

\* writeLandmarksTransformix: the name and the content of the file.
writeLandmarksTransformix(p, pathPointPairs, outPath) ==
    LET limit == p.numDims * p.numPoints
        mov == TransformixList(p.moving, 0, limit, TransformixHead(p))
        fix == TransformixList(p.fixed, 0, limit, mov.items \o TransformixImage(p))
    IN [name |-> outPath \o FileName(pathPointPairs) \o "_transformix.txt",
        items |-> IF mov.threw THEN mov.items
                  ELSE IF fix.threw THEN fix.items
                  ELSE fix.items \o TransformixTail,
        threw |-> mov.threw \/ fix.threw]

\* writeLandmarksSlicer
writeLandmarksSlicer(p, inPath, outPath, writeFixed) ==
    LET rows == SlicerRows(IF writeFixed THEN p.fixed ELSE p.moving, 0,
                           p.numDims, p.numDims * p.numPoints, SlicerHeader(p))
    IN [name |-> outPath \o FileName(inPath)
                 \o (IF writeFixed THEN "_fixed_slicer.fcsv"
                     ELSE "_moving_slicer.fcsv"),
        items |-> rows.items,
        threw |-> rows.threw]

\* writeLandmarksText
writeLandmarksText(p, inPath, outPath, writeFixed) ==
    LET rows == TextRows(IF writeFixed THEN p.fixed ELSE p.moving, 0,
                         p.numDims * p.numPoints, TextHeader(p))
    IN [name |-> outPath \o FileName(inPath)
                 \o (IF writeFixed THEN "_fixed_landmarks.txt"
                     ELSE "_moving_landmarks.txt"),
        items |-> rows.items,
        threw |-> rows.threw]


(***************************************************************************)
(* The runs of the model: the command line (five well-formed flag/value    *)
(* pairs), the input document and what is on disk.                         *)
(***************************************************************************)
InTypes == {"ix_pp", "ireg", "other"}

OutTypes == {"tfx_lmk", "slr_fid", "std_txt", "other"}

\* Values an uninitialized double may hold.
Indeterminate == {0, 0 - 1}

\* The vector size at which push_back throws std::bad_alloc.
VectorLimit == NUM_DIMS * MaxIregPoints + 4

Runs ==
    {[desc |-> d, inputType |-> "ix_pp", outputType |-> "std_txt",
      keep_all |-> k, inOpens |-> TRUE, mhdOpens |-> TRUE, mhd |-> PlainMhd] :
        d \in IxDescs, k \in {"0", "1"}}
    \cup
    {[desc |-> d, inputType |-> "ix_pp", outputType |-> o, keep_all |-> k,
      inOpens |-> TRUE, mhdOpens |-> TRUE, mhd |-> PlainMhd] :
        d \in IxVariantDescs, o \in OutTypes, k \in {"0", "1"}}
    \cup
    {[desc |-> d, inputType |-> "ireg", outputType |-> o, keep_all |-> "0",
      inOpens |-> TRUE, mhdOpens |-> TRUE, mhd |-> PlainMhd] :
        d \in IregDescs, o \in OutTypes}
    \cup
    {[desc |-> d, inputType |-> "other", outputType |-> o, keep_all |-> "0",
      inOpens |-> TRUE, mhdOpens |-> TRUE, mhd |-> PlainMhd] :
        d \in {x \in IregDescs : x.scenario}, o \in OutTypes}
    \cup
    \* the orders of the metadata lines, with and without a final newline
    {[desc |-> d, inputType |-> "ix_pp", outputType |-> "std_txt",
      keep_all |-> "1", inOpens |-> TRUE, mhdOpens |-> TRUE, mhd |-> m] :
        d \in {x \in IxVariantDescs : x.w = 2 /\ x.hdr = "Z"}, m \in MhdVariants}
    \cup
    \* a metadata document that cannot be opened
    {[desc |-> d, inputType |-> "ix_pp", outputType |-> o, keep_all |-> "1",
      inOpens |-> TRUE, mhdOpens |-> FALSE, mhd |-> PlainMhd] :
        d \in {x \in IxVariantDescs : x.w = 2 /\ x.hdr = "Z"}, o \in OutTypes}
    \cup
    \* an input document that cannot be opened
    {[desc |-> d, inputType |-> i, outputType |-> o, keep_all |-> "0",
      inOpens |-> FALSE, mhdOpens |-> TRUE, mhd |-> PlainMhd] :
        d \in {x \in IregDescs : x.scenario /\ x.ws},
        i \in InTypes, o \in OutTypes}
    \cup
    \* point-pair documents with a faulty token
    {[desc |-> d, inputType |-> "ix_pp", outputType |-> o, keep_all |-> "0",
      inOpens |-> TRUE, mhdOpens |-> TRUE, mhd |-> PlainMhd] :
        d \in IxFaultDescs, o \in {"std_txt", "other"}}
    \cup
    \* truncated point-pair documents
    {[desc |-> d, inputType |-> "ix_pp", outputType |-> "std_txt",
      keep_all |-> k, inOpens |-> TRUE, mhdOpens |-> TRUE, mhd |-> PlainMhd] :
        d \in IxTruncDescs, k \in {"0", "1"}}

VARIABLES
    pc,                 \* the statement main or the reader is at
    exitStatus,         \* "running", "EXIT_SUCCESS", "EXIT_FAILURE", "abort"
    console,            \* what was written to cout
    inDesc,             \* the descriptor the input document was built from
    inFile,             \* the input document: tokens, trailing whitespace
    inOpens,            \* whether the input document can be opened
    disk,               \* the metadata documents that can be opened
    mhdFile,            \* the fixed image's metadata document: order, newline
    pathInput, pathOutput, inputType, outputType, keep_all,
    readPair,           \* main's LandmarkPairs
    calls,              \* the reader and writer calls main has made
    outFiles,           \* the output documents created, in order
    openDocs,           \* the streams that are open
    \* readLandmarksIx
    pointPairs, fixedMhd, currentLine,
    pathMhdFixed, pathMhdMoving,
    strPoint, strPointDim, strPointCorr, numPointsFound,
    fixedCoordsVector, movingCoordsVector,
    imgDim, offset, spacing, iCoord,
    pairs,              \* the reader's LandmarkPairs
    \* readLandmarksIreg
    landmarkCoords, coordsVector

mainVars == << pathInput, pathOutput, inputType, outputType, keep_all >>

worldVars == << inDesc, inFile, inOpens, disk, mhdFile >>

ixVars == << pointPairs, fixedMhd, pathMhdFixed, pathMhdMoving,
             strPoint, strPointDim, strPointCorr, numPointsFound,
             fixedCoordsVector, movingCoordsVector,
             imgDim, offset, spacing, iCoord >>

iregVars == << landmarkCoords, coordsVector >>

vars == << pc, exitStatus, console, inDesc, inFile, inOpens, disk, mhdFile,
           pathInput, pathOutput, inputType, outputType, keep_all,
           readPair, calls, outFiles, openDocs,
           pointPairs, fixedMhd, currentLine, pathMhdFixed, pathMhdMoving,
           strPoint, strPointDim, strPointCorr, numPointsFound,
           fixedCoordsVector, movingCoordsVector,
           imgDim, offset, spacing, iCoord, pairs,
           landmarkCoords, coordsVector >>

\* A LandmarkPairs whose numbers hold g and whose containers are empty.
NewPairs(g) == [numPoints |-> g, numDims |-> g,
                offsets |-> << g, g, g >>, spacings |-> << g, g, g >>,
                imgDims |-> "", fixed |-> << >>, moving |-> << >>]

Init ==
    \E run \in Runs :
        /\ pc = "main"
        /\ exitStatus = "running"
        /\ console = << >>
        /\ inDesc = run.desc
        /\ inFile = DocOf(run.desc)
        /\ inOpens = run.inOpens
        /\ disk = IF run.mhdOpens THEN MhdPaths ELSE {}
        /\ mhdFile = run.mhd
        /\ pathInput = "/in/pairs.dat"
        /\ pathOutput = "/out/"
        /\ inputType = run.inputType
        /\ outputType = run.outputType
        /\ keep_all = run.keep_all
        /\ readPair = NewPairs(0)
        /\ calls = << >>
        /\ outFiles = << >>
        /\ openDocs = {}
        /\ pointPairs = ClosedStream
        /\ fixedMhd = ClosedStream
        /\ currentLine = ""
        /\ pathMhdFixed = ""
        /\ pathMhdMoving = ""
        /\ strPoint = "Point_X->"
        /\ strPointDim = "Point_0->0"
        /\ strPointCorr = "Point_0->0_Corresp="
        /\ numPointsFound = FALSE
        /\ fixedCoordsVector = << >>
        /\ movingCoordsVector = << >>
        /\ imgDim = ""
        /\ offset = ""
        /\ spacing = ""
        /\ iCoord = 0
        /\ pairs = NewPairs(0)
        /\ landmarkCoords = ClosedStream
        /\ coordsVector = << >>

(***************************************************************************)
(* main                                                                    *)
(***************************************************************************)
\* Mutant of MainCheckTypes: the pairing of the I/O types is not checked.
MainCheckTypesSkipped ==
    /\ pc = "main"
    /\ console' = console \o << "\nStarting conversion..." >>
    /\ pc' = "read"
    /\ UNCHANGED exitStatus
    /\ UNCHANGED << worldVars, mainVars, readPair, calls, outFiles, openDocs,
                    ixVars, currentLine, pairs, iregVars >>

\* The I/O types are checked for compatibility.
MainCheckTypes ==
    /\ pc = "main"
    /\ IF inputType = "ireg" /\ outputType = "tfx_lmk"
       THEN /\ console' = console \o
                << "Landmark list to Transformix parameters is not supported.\n" >>
            /\ exitStatus' = "EXIT_FAILURE"
            /\ pc' = "exit"
       ELSE /\ console' = console \o << "\nStarting conversion..." >>
            /\ pc' = "read"
            /\ UNCHANGED exitStatus
    /\ UNCHANGED << worldVars, mainVars, readPair, calls, outFiles, openDocs,
                    ixVars, currentLine, pairs, iregVars >>

\* The reader matching the input format is called.
MainRead ==
    /\ pc = "read"
    /\ IF inputType = "ix_pp"
       THEN /\ pc' = "ix_open"
            /\ calls' = Append(calls, "readLandmarksIx")
            /\ UNCHANGED << console, exitStatus >>
       ELSE IF inputType = "ireg"
       THEN /\ pc' = "ireg_open"
            /\ calls' = Append(calls, "readLandmarksIreg")
            /\ UNCHANGED << console, exitStatus >>
       ELSE /\ console' = console \o
                << "\nUnexpected input format!\n", "Options are: ix_pp, ireg\n" >>
            /\ exitStatus' = "EXIT_FAILURE"
            /\ pc' = "exit"
            /\ UNCHANGED calls
    /\ UNCHANGED << worldVars, mainVars, readPair, outFiles, openDocs,
                    ixVars, currentLine, pairs, iregVars >>

(***************************************************************************)
(* readLandmarksIreg                                                       *)
(***************************************************************************)
\* The landmarks file is opened; pairs is declared, its numbers unset.
IregOpen ==
    /\ pc = "ireg_open"
    /\ landmarkCoords' = OpenStream(inOpens)
    /\ openDocs' = IF inOpens THEN openDocs \cup {"landmarkCoords"} ELSE openDocs
    /\ console' = console \o
           << "\nOpening landmarks file: ",
              IF inOpens THEN "Successfully opened point pairs file.\n"
              ELSE "Failed to open point pairs file!\n" >>
    /\ currentLine' = ""
    /\ coordsVector' = << >>
    /\ pc' = "ireg_loop"
    /\ UNCHANGED << exitStatus, worldVars, mainVars, readPair, calls, outFiles,
                    ixVars, pairs >>

\* One pass of while(!landmarkCoords.eof()).
IregReadToken ==
    /\ pc = "ireg_loop"
    /\ ~landmarkCoords.eof
    /\ IF Len(coordsVector) >= VectorLimit
       THEN /\ exitStatus' = "abort"
            /\ pc' = "exit"
            /\ UNCHANGED << landmarkCoords, currentLine, coordsVector >>
       ELSE /\ landmarkCoords' = ExtractStream(landmarkCoords, inFile)
            /\ currentLine' = ExtractLine(landmarkCoords, inFile, currentLine)
            /\ coordsVector' = Append(coordsVector, atof(currentLine'))
            /\ UNCHANGED << exitStatus, pc >>
    /\ UNCHANGED << console, worldVars, mainVars, readPair, calls, outFiles,
                    openDocs, ixVars, pairs >>

\* Mutant of IregKept: the first value is never erased.
IregKeptPopOnly(v) == SubSeq(v, 1, Len(v) - 1)

\* The values kept of those read: the last one is removed, and the first one
\* when the number left is not divisible by 3.
IregKept(v) ==
    LET popped == SubSeq(v, 1, Len(v) - 1)
    IN IF (Len(popped) % 3) # 0 THEN Tail(popped) ELSE popped

\* Mutant of IregReturn: whole triples are reversed, the scalars of a triple
\* keep their order.
IregReturnTripleWise ==
    /\ pc = "ireg_loop"
    /\ landmarkCoords.eof
    /\ \E g \in Indeterminate :
        LET kept == IregKept(coordsVector)
            p == [NewPairs(g) EXCEPT !.fixed = ReverseTriples(kept),
                                     !.numDims = 3,
                                     !.numPoints = Len(kept) \div 3]
        IN /\ coordsVector' = kept
           /\ pairs' = p
           /\ readPair' = p
    /\ openDocs' = openDocs \ {"landmarkCoords"}
    /\ console' = console \o << "Starting write...\n" >>
    /\ pc' = "write"
    /\ UNCHANGED << exitStatus, worldVars, mainVars, calls, outFiles, ixVars,
                    currentLine, landmarkCoords >>

\* After the loop: the coordinates are stored, the file is closed, the order
\* is reversed and the pairs are returned to main.  The offsets and spacings
\* of pairs are never assigned.
IregReturn ==
    /\ pc = "ireg_loop"
    /\ landmarkCoords.eof
    /\ \E g \in Indeterminate :
        LET kept == IregKept(coordsVector)
            p == [NewPairs(g) EXCEPT !.fixed = Reverse(kept),
                                     !.numDims = 3,
                                     !.numPoints = Len(kept) \div 3]
        IN /\ coordsVector' = kept
           /\ pairs' = p
           /\ readPair' = p
    /\ openDocs' = openDocs \ {"landmarkCoords"}
    /\ console' = console \o << "Starting write...\n" >>
    /\ pc' = "write"
    /\ UNCHANGED << exitStatus, worldVars, mainVars, calls, outFiles, ixVars,
                    currentLine, landmarkCoords >>


(***************************************************************************)
(* readLandmarksIx                                                         *)
(***************************************************************************)
strManChosen == "ManuallyChosen="
strSysGuess == "_SystemGuess="
strUnsure == "VeryUnsure="
strOrientation == "Orientation = "
strImgDim == "DimSize = "
strOffset == "Offset = "
strSpacing == "ElementSpacing = "

\* s.insert(pos, t)
Insert(s, pos, t) == SubSeq(s, 1, pos) \o t \o SubSeq(s, pos + 1, Len(s))

\* s[i] read beyond the terminating '\0' is undefined: any character.
CharChoices(s, i) == IF i <= Len(s) THEN {CharAt(s, i)} ELSE {"Z", "X", "-", "?"}

RECURSIVE ReplaceBackslashes(_, _)
ReplaceBackslashes(s, i) ==
    IF i > Len(s) THEN ""
    ELSE (IF SubSeq(s, i, i) = "\\" THEN "/" ELSE SubSeq(s, i, i))
         \o ReplaceBackslashes(s, i + 1)

\* The metadata path taken from the first line, c its character at index 7.
MhdPathOf(line, c) ==
    IF c = "Z"
    THEN ReplaceBackslashes(Insert(Erase(line, 9), 0, "/rdo/home/cguy"), 1)
    ELSE IF c = "X"
    THEN ReplaceBackslashes(Insert(Erase(line, 9), 0, "/rdo/home/cguy/ix"), 1)
    ELSE Erase(line, 7)

\* The point pairs file is opened.
IxOpen ==
    /\ pc = "ix_open"
    /\ pointPairs' = OpenStream(inOpens)
    /\ openDocs' = IF inOpens THEN openDocs \cup {"pointPairs"} ELSE openDocs
    /\ console' = console \o
           << "\nOpening point pairs file: ",
              IF inOpens THEN "Successfully opened point pairs file.\n"
              ELSE "Failed to open point pairs file!\n\n" >>
    /\ pc' = "ix_paths"
    /\ UNCHANGED << exitStatus, worldVars, mainVars, readPair, calls, outFiles,
                    fixedMhd, currentLine, pathMhdFixed, pathMhdMoving,
                    strPoint, strPointDim, strPointCorr, numPointsFound,
                    fixedCoordsVector, movingCoordsVector,
                    imgDim, offset, spacing, iCoord, pairs, iregVars >>

\* Mutant of IxReadPaths: the metadata path is taken from the second path
\* line.
IxReadPathsSecond ==
    /\ pc = "ix_paths"
    /\ LET s1 == ExtractStream(pointPairs, inFile)
           l1 == ExtractLine(pointPairs, inFile, currentLine)
           s2 == ExtractStream(s1, inFile)
           l2 == ExtractLine(s1, inFile, l1)
       IN /\ \E c \in CharChoices(l2, 7) : pathMhdFixed' = MhdPathOf(l2, c)
          /\ pathMhdMoving' = l2
          /\ currentLine' = l2
          /\ pointPairs' = s2
    /\ pc' = "ix_points"
    /\ UNCHANGED << exitStatus, console, worldVars, mainVars, readPair, calls,
                    outFiles, openDocs, fixedMhd,
                    strPoint, strPointDim, strPointCorr, numPointsFound,
                    fixedCoordsVector, movingCoordsVector,
                    imgDim, offset, spacing, iCoord, pairs, iregVars >>

\* The two file path lines are read.
IxReadPaths ==
    /\ pc = "ix_paths"
    /\ LET s1 == ExtractStream(pointPairs, inFile)
           l1 == ExtractLine(pointPairs, inFile, currentLine)
           s2 == ExtractStream(s1, inFile)
           l2 == ExtractLine(s1, inFile, l1)
       IN /\ \E c \in CharChoices(l1, 7) : pathMhdFixed' = MhdPathOf(l1, c)
          /\ pathMhdMoving' = l2
          /\ currentLine' = l2
          /\ pointPairs' = s2
    /\ pc' = "ix_points"
    /\ UNCHANGED << exitStatus, console, worldVars, mainVars, readPair, calls,
                    outFiles, openDocs, fixedMhd,
                    strPoint, strPointDim, strPointCorr, numPointsFound,
                    fixedCoordsVector, movingCoordsVector,
                    imgDim, offset, spacing, iCoord, pairs, iregVars >>

(***************************************************************************)
(* The parse of one point record.  ps holds the stream, currentLine, the   *)
(* two coordinate vectors, systemGuessPresent, the messages printed and    *)
(* whether std::out_of_range was thrown; once thrown nothing more runs.    *)
(***************************************************************************)
\* pointPairs >> currentLine
Rd(ps) ==
    Once(LAMBDA p :
            IF p.thr THEN p
            ELSE [p EXCEPT !.st = ExtractStream(p.st, inFile),
                           !.line = ExtractLine(p.st, inFile, p.line)],
         ps)

\* Checks for SystemGuess and skips it if present.
SkipSystemGuess(ps, dimLen) ==
    Once(LAMBDA p :
            IF p.thr THEN p
            ELSE IF CompareThrows(p.line, dimLen) THEN [p EXCEPT !.thr = TRUE]
            ELSE IF CompareAt(p.line, dimLen, Len(strSysGuess), strSysGuess)
            THEN [Rd(p) EXCEPT !.sg = TRUE]
            ELSE p,
         ps)

\* Erases the key of the fixed coordinate line and stores its value.
PushFixed(ps, dimLen) ==
    Once(LAMBDA p :
            IF p.thr THEN p
            ELSE LET e == Erase(p.line, dimLen + 1)
                 IN [p EXCEPT !.line = e, !.fx = Append(@, atoi(e))],
         ps)

\* Erases the key of the corresponding coordinate line and stores its value.
PushMoving(ps, corrLen) ==
    Once(LAMBDA p :
            IF p.thr THEN p
            ELSE LET e == Erase(p.line, corrLen)
                 IN [p EXCEPT !.line = e, !.mv = Append(@, atoi(e))],
         ps)

\* One pass of the loop over the axes of a kept point.
ReadAxis(ps, dimLen, corrLen) ==
    PushMoving(Rd(PushFixed(SkipSystemGuess(Rd(ps), dimLen), dimLen)), corrLen)

\* Extracts the X, Y, Z coordinates of a point pair.
KeepPoint(ps, dimLen, corrLen) ==
    ReadAxis(ReadAxis(ReadAxis(ps, dimLen, corrLen), dimLen, corrLen),
             dimLen, corrLen)

\* Mutant of DiscardLine: a SystemGuess line counts as a coordinate line.
DiscardLineNoSkip(ps, dimLen) == Rd(ps)

\* One pass of the loop that discards a coordinate line.
DiscardLine(ps, dimLen) == SkipSystemGuess(Rd(ps), dimLen)

RECURSIVE DiscardPoint(_, _, _)
DiscardPoint(ps, dimLen, n) ==
    IF n = 0 THEN ps
    ELSE DiscardPoint(DiscardLine(ps, dimLen), dimLen, n - 1)

\* Mutant of IsDiscarded: keep_all is not consulted.
IsDiscardedAlways(unsure, keepAll) == unsure # "0"

\* Whether a manually chosen pair is dropped: currentLine is the VeryUnsure value.
IsDiscarded(unsure, keepAll) == unsure # "0" /\ keepAll = "0"

\* Verifies that key follows the point prefix, then extracts the value.
ExpectKey(ps, pointLen, key, message) ==
    Once(LAMBDA p :
            IF p.thr THEN p
            ELSE IF CompareThrows(p.line, pointLen) THEN [p EXCEPT !.thr = TRUE]
            ELSE IF CompareAt(p.line, pointLen, Len(key), key)
            THEN [p EXCEPT !.line = Erase(p.line, pointLen + Len(key))]
            ELSE [p EXCEPT !.out = Append(@, message)],
         ps)

\* The record after Distinctiveness was read without failure.
ReadRecord(ps, pointLen, dimLen, corrLen, keepAll) ==
    LET m == ExpectKey(Rd(ps), pointLen, strManChosen,
                       "Error reading point pair file value: ManuallyChosen")
        body ==
            IF m.thr THEN m
            ELSE IF m.line = "0"
            THEN KeepPoint(Rd(Rd(m)), dimLen, corrLen)
            ELSE LET u == ExpectKey(Rd(Rd(m)), pointLen, strUnsure,
                              "\nError reading point pair file value: VeryUnsure")
                 IN IF u.thr THEN u
                    ELSE IF IsDiscarded(u.line, keepAll)
                    THEN DiscardPoint(u, dimLen, 2 * NUM_DIMS)
                    ELSE KeepPoint(u, dimLen, corrLen)
    IN IF body.sg THEN Rd(body) ELSE body

\* The point key strings, corrected to the digits per point number found in
\* the first Distinctiveness line (c9, c8: its characters at 9 and 8).
CorrectedKey(key, c9, c8, three, two) ==
    IF c9 = "-" THEN Insert(key, 6, three)
    ELSE IF c8 = "-" THEN Insert(key, 6, two)
    ELSE key

\* One pass of while(!pointPairs.eof()).
IxReadPoint ==
    /\ pc = "ix_points"
    /\ ~pointPairs.eof
    /\ LET ps0 == [st |-> pointPairs, line |-> currentLine,
                   fx |-> fixedCoordsVector, mv |-> movingCoordsVector,
                   sg |-> FALSE, thr |-> FALSE, out |-> << >>]
           ps1 == Rd(ps0)
       IN \E c9 \in CharChoices(ps1.line, 9), c8 \in CharChoices(ps1.line, 8) :
            LET sp == IF numPointsFound THEN strPoint
                      ELSE CorrectedKey(strPoint, c9, c8, "XX", "X")
                sd == IF numPointsFound THEN strPointDim
                      ELSE CorrectedKey(strPointDim, c9, c8, "00", "0")
                sc == IF numPointsFound THEN strPointCorr
                      ELSE CorrectedKey(strPointCorr, c9, c8, "00", "0")
                ps == IF ~ps1.st.fail
                      THEN ReadRecord(ps1, Len(sp), Len(sd), Len(sc), keep_all)
                      ELSE ps1
            IN /\ strPoint' = sp
               /\ strPointDim' = sd
               /\ strPointCorr' = sc
               /\ numPointsFound' = TRUE
               /\ pointPairs' = ps.st
               /\ currentLine' = ps.line
               /\ fixedCoordsVector' = ps.fx
               /\ movingCoordsVector' = ps.mv
               /\ console' = console \o ps.out
               /\ IF ps.thr
                  THEN exitStatus' = "abort" /\ pc' = "exit"
                  ELSE UNCHANGED << exitStatus, pc >>
    /\ UNCHANGED << worldVars, mainVars, readPair, calls, outFiles, openDocs,
                    fixedMhd, pathMhdFixed, pathMhdMoving,
                    imgDim, offset, spacing, iCoord, pairs, iregVars >>


(***************************************************************************)
(* The metadata document, read with getline.                               *)
(***************************************************************************)
\* The metadata document at a path.
MhdOnDisk(path) ==
    [lines |-> IF path = "/data/moving.mhd" THEN MovingMhdLines
               ELSE MhdLinesIn(MhdOrders[mhdFile.order]),
     nl |-> mhdFile.nl]

\* getline(stream, str): the stream after the call.
GetlineStream(st, doc) ==
    IF st.eof \/ st.fail THEN [st EXCEPT !.fail = TRUE]
    ELSE IF st.pos > Len(doc.lines) THEN [st EXCEPT !.eof = TRUE, !.fail = TRUE]
    ELSE [pos |-> st.pos + 1,
          eof |-> (st.pos = Len(doc.lines) /\ ~doc.nl),
          fail |-> FALSE]

GetlineLine(st, doc, line) ==
    IF st.eof \/ st.fail THEN line
    ELSE IF st.pos > Len(doc.lines) THEN ""
    ELSE doc.lines[st.pos]

\* The metadata file is opened and its first line read.
IxOpenMhd ==
    /\ pc = "ix_points"
    /\ pointPairs.eof
    /\ LET opens == pathMhdFixed \in disk
           st == OpenStream(opens)
       IN /\ openDocs' = IF opens THEN openDocs \cup {"fixedMhd"} ELSE openDocs
          /\ console' = console \o
                 << "Opening MetaHeader file: " \o pathMhdFixed,
                    IF opens THEN "Successfully opened fixed image file.\n"
                    ELSE "Failed to open fixed image file!\n" >>
          /\ fixedMhd' = GetlineStream(st, MhdOnDisk(pathMhdFixed))
          /\ currentLine' = GetlineLine(st, MhdOnDisk(pathMhdFixed), currentLine)
    /\ pc' = "ix_mhd"
    /\ UNCHANGED << exitStatus, worldVars, mainVars, readPair, calls, outFiles,
                    pointPairs, pathMhdFixed, pathMhdMoving,
                    strPoint, strPointDim, strPointCorr, numPointsFound,
                    fixedCoordsVector, movingCoordsVector,
                    imgDim, offset, spacing, iCoord, pairs, iregVars >>

\* Whether the line begins with the tag.
HasTag(line, tag) == CompareAt(line, 0, Len(tag), tag)

\* One pass of while(!fixedMhd.eof()).
IxReadMhdLine ==
    /\ pc = "ix_mhd"
    /\ ~fixedMhd.eof
    /\ LET value(tag) == Erase(currentLine, Len(tag))
       IN IF HasTag(currentLine, strOrientation)
          THEN UNCHANGED << imgDim, offset, spacing >>
          ELSE IF HasTag(currentLine, strImgDim)
          THEN imgDim' = value(strImgDim) /\ UNCHANGED << offset, spacing >>
          ELSE IF HasTag(currentLine, strOffset)
          THEN offset' = value(strOffset) /\ UNCHANGED << imgDim, spacing >>
          ELSE IF HasTag(currentLine, strSpacing)
          THEN spacing' = value(strSpacing) /\ UNCHANGED << imgDim, offset >>
          ELSE UNCHANGED << imgDim, offset, spacing >>
    /\ fixedMhd' = GetlineStream(fixedMhd, MhdOnDisk(pathMhdFixed))
    /\ currentLine' = GetlineLine(fixedMhd, MhdOnDisk(pathMhdFixed), currentLine)
    /\ UNCHANGED << pc, exitStatus, console, worldVars, mainVars, readPair,
                    calls, outFiles, openDocs,
                    pointPairs, pathMhdFixed, pathMhdMoving,
                    strPoint, strPointDim, strPointCorr, numPointsFound,
                    fixedCoordsVector, movingCoordsVector, iCoord, pairs,
                    iregVars >>

\* The first word of s from position i on (1-based), after blanks.
RECURSIVE SkipBlanks(_, _)
SkipBlanks(s, i) ==
    IF i <= Len(s) /\ SubSeq(s, i, i) = " " THEN SkipBlanks(s, i + 1) ELSE i

RECURSIVE WordEnd(_, _)
WordEnd(s, i) ==
    IF i <= Len(s) /\ IsDigit(SubSeq(s, i, i)) THEN WordEnd(s, i + 1) ELSE i

\* istringstream(s) >> f[0] >> f[1] >> f[2] on floats set to 0: an
\* extraction that finds no number stores 0 and fails the later ones.
RECURSIVE ExtractFloats(_, _, _)
ExtractFloats(s, i, n) ==
    IF n = 0 THEN << >>
    ELSE Once(LAMBDA b :
                Once(LAMBDA e :
                        IF e = b THEN [j \in 1..n |-> 0]
                        ELSE << DigitsValue(s, b, 0) >>
                             \o ExtractFloats(s, e, n - 1),
                     WordEnd(s, b)),
              SkipBlanks(s, i))

\* The offsets and spacings are extracted and stored in the structure.
IxExtract ==
    /\ pc = "ix_mhd"
    /\ fixedMhd.eof
    /\ pairs' = [numPoints |-> Len(fixedCoordsVector) \div 3,
                 numDims |-> NUM_DIMS,
                 imgDims |-> imgDim,
                 offsets |-> ExtractFloats(offset, 1, 3),
                 spacings |-> ExtractFloats(spacing, 1, 3),
                 fixed |-> << >>,
                 moving |-> << >>]
    /\ iCoord' = Len(fixedCoordsVector)
    /\ pc' = "ix_convert"
    /\ UNCHANGED << exitStatus, console, worldVars, mainVars, readPair, calls,
                    outFiles, openDocs, pointPairs, fixedMhd, currentLine,
                    pathMhdFixed, pathMhdMoving,
                    strPoint, strPointDim, strPointCorr, numPointsFound,
                    fixedCoordsVector, movingCoordsVector,
                    imgDim, offset, spacing, iregVars >>

\* Mutant of Physical: the offset is not added.
PhysicalNoOffset(voxel, a, spacings, offsets) == voxel * spacings[a + 1]

\* The physical coordinate of a voxel coordinate on axis a (0, 1, 2).
Physical(voxel, a, spacings, offsets) == (voxel * spacings[a + 1]) + offsets[a + 1]

\* The three physical coordinates pushed for the point ending at iCoord.
PhysicalTriple(v, i, spacings, offsets) ==
    << Physical(At(v, i - 3), 0, spacings, offsets),
       Physical(At(v, i - 2), 1, spacings, offsets),
       Physical(At(v, i - 1), 2, spacings, offsets) >>

\* v.at(i - 3), v.at(i - 2), v.at(i - 1): whether one of them throws.
TripleThrows(v, i) == i - 3 < 0 \/ AtThrows(v, i - 1)

\* One pass of the conversion loop, from the last point to the first.
IxConvert ==
    /\ pc = "ix_convert"
    /\ iCoord > 0
    /\ IF TripleThrows(fixedCoordsVector, iCoord)
       THEN /\ exitStatus' = "abort"
            /\ pc' = "exit"
            /\ UNCHANGED << pairs, iCoord >>
       ELSE LET f == Append3(pairs.fixed,
                        PhysicalTriple(fixedCoordsVector, iCoord,
                                       pairs.spacings, pairs.offsets))
            IN IF TripleThrows(movingCoordsVector, iCoord)
               THEN /\ exitStatus' = "abort"
                    /\ pc' = "exit"
                    /\ pairs' = [pairs EXCEPT !.fixed = f]
                    /\ UNCHANGED iCoord
               ELSE /\ pairs' = [pairs EXCEPT
                          !.fixed = f,
                          !.moving = Append3(pairs.moving,
                              PhysicalTriple(movingCoordsVector, iCoord,
                                             pairs.spacings, pairs.offsets))]
                    /\ iCoord' = iCoord - 3
                    /\ UNCHANGED << exitStatus, pc >>
    /\ UNCHANGED << console, worldVars, mainVars, readPair, calls, outFiles,
                    openDocs, pointPairs, fixedMhd, currentLine,
                    pathMhdFixed, pathMhdMoving,
                    strPoint, strPointDim, strPointCorr, numPointsFound,
                    fixedCoordsVector, movingCoordsVector,
                    imgDim, offset, spacing, iregVars >>

\* Mutant of IxReturn: the point pairs file is not closed.
IxReturnPairsOpen ==
    /\ pc = "ix_convert"
    /\ ~(iCoord > 0)
    /\ LET p == [pairs EXCEPT !.fixed = Reverse(pairs.fixed),
                              !.moving = Reverse(pairs.moving)]
       IN pairs' = p /\ readPair' = p
    /\ openDocs' = openDocs \ {"fixedMhd"}
    /\ console' = console \o << "Starting write...\n" >>
    /\ pc' = "write"
    /\ UNCHANGED << exitStatus, worldVars, mainVars, calls, outFiles,
                    ixVars, currentLine, iregVars >>

\* The files are closed, the order of the landmarks is reversed and the
\* pairs are returned to main.
IxReturn ==
    /\ pc = "ix_convert"
    /\ ~(iCoord > 0)
    /\ LET p == [pairs EXCEPT !.fixed = Reverse(pairs.fixed),
                              !.moving = Reverse(pairs.moving)]
       IN pairs' = p /\ readPair' = p
    /\ openDocs' = openDocs \ {"pointPairs", "fixedMhd"}
    /\ console' = console \o << "Starting write...\n" >>
    /\ pc' = "write"
    /\ UNCHANGED << exitStatus, worldVars, mainVars, calls, outFiles,
                    ixVars, currentLine, iregVars >>


(***************************************************************************)
(* main: the write phase.  A writer creates its file, writes it and closes *)
(* it; an exception it throws is not caught and ends the process.          *)
(***************************************************************************)
readerVars == << ixVars, currentLine, pairs, iregVars >>

\* One writer call: the file it leaves, then nextPc or the abort.
Invoke(call, file, nextPc) ==
    /\ calls' = Append(calls, call)
    /\ outFiles' = Append(outFiles, [name |-> file.name, items |-> file.items])
    /\ console' = console \o << "Creating output file: " \o file.name >>
    /\ IF file.threw
       THEN exitStatus' = "abort" /\ pc' = "exit"
       ELSE pc' = nextPc /\ UNCHANGED exitStatus
    /\ UNCHANGED << worldVars, mainVars, readPair, openDocs, readerVars >>

MainWriteTransformix ==
    /\ pc = "write"
    /\ outputType = "tfx_lmk"
    /\ Invoke("writeLandmarksTransformix",
              writeLandmarksTransformix(readPair, pathInput, pathOutput),
              "return")

\* Mutant of MainWriteSlicerFixed: the moving set is written whatever the
\* input type.
MainWriteSlicerFixedAlways ==
    /\ pc = "write"
    /\ outputType = "slr_fid"
    /\ Invoke("writeLandmarksSlicer:fixed",
              writeLandmarksSlicer(readPair, pathInput, pathOutput, TRUE),
              "write_moving")

MainWriteSlicerFixed ==
    /\ pc = "write"
    /\ outputType = "slr_fid"
    /\ Invoke("writeLandmarksSlicer:fixed",
              writeLandmarksSlicer(readPair, pathInput, pathOutput, TRUE),
              IF inputType = "ix_pp" THEN "write_moving" ELSE "return")

MainWriteSlicerMoving ==
    /\ pc = "write_moving"
    /\ outputType = "slr_fid"
    /\ Invoke("writeLandmarksSlicer:moving",
              writeLandmarksSlicer(readPair, pathInput, pathOutput, FALSE),
              "return")

\* Mutant of MainWriteTextFixed: the moving set is written whatever the
\* input type.
MainWriteTextFixedAlways ==
    /\ pc = "write"
    /\ outputType = "std_txt"
    /\ Invoke("writeLandmarksText:fixed",
              writeLandmarksText(readPair, pathInput, pathOutput, TRUE),
              "write_moving")

MainWriteTextFixed ==
    /\ pc = "write"
    /\ outputType = "std_txt"
    /\ Invoke("writeLandmarksText:fixed",
              writeLandmarksText(readPair, pathInput, pathOutput, TRUE),
              IF inputType = "ix_pp" THEN "write_moving" ELSE "return")

MainWriteTextMoving ==
    /\ pc = "write_moving"
    /\ outputType = "std_txt"
    /\ Invoke("writeLandmarksText:moving",
              writeLandmarksText(readPair, pathInput, pathOutput, FALSE),
              "return")

\* An output format that is none of the three.
MainBadOutput ==
    /\ pc = "write"
    /\ outputType \notin {"tfx_lmk", "slr_fid", "std_txt"}
    /\ console' = console \o
           << "\nUnexpected output format!\n", "Options are: tfx_lmk, slr_fid\n" >>
    /\ exitStatus' = "EXIT_FAILURE"
    /\ pc' = "exit"
    /\ UNCHANGED << worldVars, mainVars, readPair, calls, outFiles, openDocs,
                    readerVars >>

MainReturn ==
    /\ pc = "return"
    /\ console' = console \o << "Conversion complete!\n\n" >>
    /\ exitStatus' = "EXIT_SUCCESS"
    /\ pc' = "exit"
    /\ UNCHANGED << worldVars, mainVars, readPair, calls, outFiles, openDocs,
                    readerVars >>

Next ==
    \/ MainCheckTypes
    \/ MainRead
    \/ IxOpen
    \/ IxReadPaths
    \/ IxReadPoint
    \/ IxOpenMhd
    \/ IxReadMhdLine
    \/ IxExtract
    \/ IxConvert
    \/ IxReturn
    \/ IregOpen
    \/ IregReadToken
    \/ IregReturn
    \/ MainWriteTransformix
    \/ MainWriteSlicerFixed
    \/ MainWriteSlicerMoving
    \/ MainWriteTextFixed
    \/ MainWriteTextMoving
    \/ MainBadOutput
    \/ MainReturn

Spec == Init /\ [][Next]_vars

\* The process keeps running while it has a statement to run.  A pass of a
\* reader's loop over a stream whose open failed changes no variable (the
\* line counter, which is only printed, is not part of the state): the
\* program that repeats such a pass forever is a behaviour that stutters
\* forever at that loop.
FairSpec == Spec /\ WF_vars(Next)


(***************************************************************************)
(* Properties.                                                             *)
(***************************************************************************)
\* The reader has returned to main and readPair holds what it returned.
ReaderReturned == pc \in {"write", "write_moving", "return"}

\* A run of readLandmarksIx on a valid point-pair document that was opened.
ValidIxRun == inputType = "ix_pp" /\ inDesc.kind = "ix" /\ inOpens

\* A run of readLandmarksIreg on a registration list that was opened.
IregRun == inputType = "ireg" /\ inDesc.kind = "ireg" /\ inOpens

\* A record the document marks as manually chosen and very unsure, when
\* unsure points are to be discarded.
Dropped(rec, keepAll) == rec.man # "0" /\ rec.unsure # "0" /\ keepAll = "0"

\* The numbers (from 0) of the records of the document that are not
\* dropped, in document order.
RECURSIVE KeptUpTo(_, _, _)
KeptUpTo(recs, keepAll, n) ==
    IF n = 0 THEN << >>
    ELSE KeptUpTo(recs, keepAll, n - 1)
         \o (IF Dropped(recs[n], keepAll) THEN << >> ELSE << n - 1 >>)

Kept == KeptUpTo(inDesc.recs, keep_all, Len(inDesc.recs))

Axes == {0, 1, 2}

\* voxel * spacing[a] + offset[a] with the vectors of the returned set.
Affine(voxel, a) == voxel * readPair.spacings[a + 1] + readPair.offsets[a + 1]

\* The elements of triple j (from 1) of a sequence.
TripleSet(v, j) == {v[3 * (j - 1) + 1], v[3 * (j - 1) + 2], v[3 * (j - 1) + 3]}

Range(v) == {v[i] : i \in 1..Len(v)}

\* C1: for every valid point-pair document the LandmarkSet returned by
\* readLandmarksIx has fixed and moving of equal length, a multiple of 3,
\* and numPoints is that length divided by 3.
C1_PairShape ==
    (ValidIxRun /\ ReaderReturned) =>
        /\ Len(readPair.fixed) = Len(readPair.moving)
        /\ Len(readPair.fixed) % 3 = 0
        /\ Len(readPair.moving) % 3 = 0
        /\ readPair.numPoints * 3 = Len(readPair.fixed)

C1_Witness ==
    /\ ValidIxRun /\ ReaderReturned
    /\ keep_all = "0"
    /\ Len(inDesc.recs) = 2
    /\ Dropped(inDesc.recs[1], keep_all)
    /\ inDesc.recs[2].sg
    /\ readPair.numPoints = 1
    /\ Len(readPair.fixed) = 3

\* C2: a point record is left out of both output sequences exactly when it
\* is manually chosen, very unsure and keep_all is 0; every other record
\* contributes one triple to fixed and one to moving.
C2_CertaintyFilter ==
    (ValidIxRun /\ ReaderReturned) =>
        /\ Len(readPair.fixed) = 3 * Len(Kept)
        /\ Len(readPair.moving) = 3 * Len(Kept)
        /\ \A p \in 0..(Len(inDesc.recs) - 1) :
              /\ (p \in Range(Kept)) <=>
                    (\A a \in Axes : Affine(FixedVoxel(p, a), a) \in Range(readPair.fixed))
              /\ (p \in Range(Kept)) <=>
                    (\A a \in Axes : Affine(MovingVoxel(p, a), a) \in Range(readPair.moving))
              /\ (p \notin Range(Kept)) <=>
                    (\A a \in Axes : Affine(FixedVoxel(p, a), a) \notin Range(readPair.fixed))
              /\ (p \notin Range(Kept)) <=>
                    (\A a \in Axes : Affine(MovingVoxel(p, a), a) \notin Range(readPair.moving))

C2_Witness ==
    /\ ValidIxRun /\ ReaderReturned
    /\ keep_all = "0"
    /\ Len(inDesc.recs) = 2
    /\ inDesc.recs[1].man = "1" /\ inDesc.recs[1].unsure = "1"
    /\ inDesc.recs[2].man = "1" /\ inDesc.recs[2].unsure = "0"
    /\ Kept = << 1 >>
    /\ Len(readPair.fixed) = 3

\* C3: every stored coordinate of a kept point is voxel * spacing[axis] +
\* offset[axis] of the voxel value read for that point and axis, fixed and
\* moving converted with the same spacing and offset vectors.
C3_AffineConversion ==
    (ValidIxRun /\ ReaderReturned) =>
        /\ Range(readPair.fixed) =
              {Affine(FixedVoxel(Kept[j], a), a) : j \in 1..Len(Kept), a \in Axes}
        /\ Range(readPair.moving) =
              {Affine(MovingVoxel(Kept[j], a), a) : j \in 1..Len(Kept), a \in Axes}

C3_Witness ==
    /\ ValidIxRun /\ ReaderReturned
    /\ Len(Kept) = 2
    /\ readPair.spacings = << 2, 3, 5 >>
    /\ readPair.offsets = << 7, 11, 13 >>
    /\ 10 * 2 + 7 \in Range(readPair.fixed)
    /\ 22 * 5 + 13 \in Range(readPair.fixed)
    /\ 27 * 5 + 13 \in Range(readPair.moving)

\* C4: the k-th triple of the returned fixed sequence, and of the moving
\* sequence, holds the coordinates of the k-th kept point record in
\* document order.
C4_DocumentOrder ==
    (ValidIxRun /\ ReaderReturned) =>
        \A j \in 1..Len(Kept) :
            /\ 3 * j <= Len(readPair.fixed)
            /\ 3 * j <= Len(readPair.moving)
            /\ TripleSet(readPair.fixed, j) =
                  {Affine(FixedVoxel(Kept[j], a), a) : a \in Axes}
            /\ TripleSet(readPair.moving, j) =
                  {Affine(MovingVoxel(Kept[j], a), a) : a \in Axes}

C4_Witness ==
    /\ ValidIxRun /\ ReaderReturned
    /\ Len(inDesc.recs) = 2
    /\ Kept = << 0, 1 >>
    /\ Len(readPair.fixed) = 6

\* C5 as claimed: element 3k of fixed and of moving is the X value of point
\* k, element 3k+1 its Y value and element 3k+2 its Z value.
C5_Claimed ==
    (ValidIxRun /\ ReaderReturned) =>
        \A j \in 1..Len(Kept) : \A a \in Axes :
            /\ readPair.fixed[3 * (j - 1) + a + 1] = Affine(FixedVoxel(Kept[j], a), a)
            /\ readPair.moving[3 * (j - 1) + a + 1] = Affine(MovingVoxel(Kept[j], a), a)

\* C5 as amended: the final reversal reverses the scalars too, so each triple
\* is laid out (z, y, x): element 3k is the Z value of point k, element 3k+1
\* its Y value and element 3k+2 its X value.
C5_ReversedLayout ==
    (ValidIxRun /\ ReaderReturned) =>
        \A j \in 1..Len(Kept) : \A a \in Axes :
            /\ readPair.fixed[3 * (j - 1) + (2 - a) + 1] = Affine(FixedVoxel(Kept[j], a), a)
            /\ readPair.moving[3 * (j - 1) + (2 - a) + 1] = Affine(MovingVoxel(Kept[j], a), a)

C5_Witness ==
    /\ ValidIxRun /\ ReaderReturned
    /\ Len(Kept) >= 1
    /\ readPair.fixed[1] = Affine(FixedVoxel(Kept[1], 2), 2)
    /\ readPair.fixed[3] = Affine(FixedVoxel(Kept[1], 0), 0)
    /\ readPair.fixed[1] # readPair.fixed[3]


(***************************************************************************)
(* What the written documents hold.                                        *)
(***************************************************************************)
IsNum(item) == item.k = "num"

\* The numbers among the items, in order.
Numbers(items) ==
    LET sel == SelectSeq(items, IsNum) IN [i \in 1..Len(sel) |-> sel[i].v]

\* The index of the first item at or after index from that is the literal.
FirstLit(items, text, from) ==
    CHOOSE i \in from..Len(items) :
        /\ items[i] = Lit(text)
        /\ \A j \in from..(i - 1) : items[j] # Lit(text)

\* The numbers written between the literal open and the next literal close.
NumbersBetween(items, open, close) ==
    LET a == FirstLit(items, open, 1)
        b == FirstLit(items, close, a + 1)
    IN Numbers(SubSeq(items, a + 1, b - 1))

\* stored[3k+2], stored[3k+1], stored[3k] for k = 0 .. n-1.
EmittedReversed(stored, n) ==
    [i \in 1..(3 * n) |-> stored[3 * ((i - 1) \div 3) + 3 - ((i - 1) % 3)]]

\* k+1, -stored[3k+2], -stored[3k+1], stored[3k] for k = 0 .. n-1.
EmittedSlicer(stored, n) ==
    [i \in 1..(4 * n) |->
        LET k == (i - 1) \div 4
            r == (i - 1) % 4
        IN IF r = 0 THEN k + 1
           ELSE IF r = 1 THEN 0 - stored[3 * k + 3]
           ELSE IF r = 2 THEN 0 - stored[3 * k + 2]
           ELSE stored[3 * k + 1]]

FilesNamed(suffix) ==
    {i \in 1..Len(outFiles) : outFiles[i].name = "/out/pairs" \o suffix}

NoAbort == exitStatus # "abort"

\* C6: the Transformix writer and the plain-text writer emit, for every
\* point k in increasing k, stored[3k+2], stored[3k+1], stored[3k];
\* Transformix lists the moving set under TransformParameters and the fixed
\* set under FixedImageLandmarks, the text writer the set of its selector.
C6_ReversedTriples ==
    NoAbort =>
        /\ \A i \in FilesNamed("_transformix.txt") :
              /\ NumbersBetween(outFiles[i].items, "(TransformParameters", ")\n")
                    = EmittedReversed(readPair.moving, readPair.numPoints)
              /\ NumbersBetween(outFiles[i].items, "(FixedImageLandmarks", ")\n\n")
                    = EmittedReversed(readPair.fixed, readPair.numPoints)
        /\ \A i \in FilesNamed("_fixed_landmarks.txt") :
              Numbers(SubSeq(outFiles[i].items, 4, Len(outFiles[i].items)))
                 = EmittedReversed(readPair.fixed, readPair.numPoints)
        /\ \A i \in FilesNamed("_moving_landmarks.txt") :
              Numbers(SubSeq(outFiles[i].items, 4, Len(outFiles[i].items)))
                 = EmittedReversed(readPair.moving, readPair.numPoints)

C6_Witness ==
    /\ pc = "exit" /\ exitStatus = "EXIT_SUCCESS"
    /\ outputType = "tfx_lmk"
    /\ readPair.numPoints = 2
    /\ FilesNamed("_transformix.txt") = {1}
    /\ readPair.moving[1] # readPair.moving[3]
    /\ NumbersBetween(outFiles[1].items, "(TransformParameters", ")\n")[1]
          = readPair.moving[3]

\* C7: the Slicer writer emits, for every point k of the selected set, a row
\* labelled k+1 with x = -stored[3k+2], y = -stored[3k+1], z = stored[3k],
\* followed by the constant flags 0 and 1.
C7_SlicerRows ==
    NoAbort =>
        \A sel \in BOOLEAN :
            \A i \in FilesNamed(IF sel THEN "_fixed_slicer.fcsv"
                                ELSE "_moving_slicer.fcsv") :
              LET stored == IF sel THEN readPair.fixed ELSE readPair.moving
                  rows == SubSeq(outFiles[i].items, Len(SlicerHeader(readPair)) + 1,
                                 Len(outFiles[i].items))
                  flags == {r \in 1..Len(rows) : rows[r] = Lit(", 0, 1")}
              IN /\ Numbers(rows) = EmittedSlicer(stored, readPair.numPoints)
                 /\ Cardinality(flags) = readPair.numPoints
                 /\ \A r \in flags : r > 1 /\ IsNum(rows[r - 1])

C7_Witness ==
    /\ pc = "exit" /\ exitStatus = "EXIT_SUCCESS"
    /\ outputType = "slr_fid"
    /\ inputType = "ix_pp"
    /\ readPair.numPoints = 2
    /\ FilesNamed("_fixed_slicer.fcsv") = {1}
    /\ FilesNamed("_moving_slicer.fcsv") = {2}
    /\ readPair.fixed[3] > 0
    /\ outFiles[1].items[Len(SlicerHeader(readPair)) + 3] = Num(0 - readPair.fixed[3])


\* C8 as claimed: for a registration list made of a count token, 3N
\* coordinate tokens and a trailing token, readLandmarksIreg returns exactly
\* N triples whose values are the 3N coordinate tokens.
C8_Claimed ==
    (IregRun /\ ~inDesc.scenario /\ inDesc.count /\ inDesc.artifact
        /\ ReaderReturned) =>
        /\ readPair.numPoints = inDesc.n
        /\ Len(readPair.fixed) = 3 * inDesc.n
        /\ Range(readPair.fixed) = {IregCoord(i) : i \in 1..(3 * inDesc.n)}

\* The input of the scenario: 1, 0.0, 0.0, 0.0, 1.0, 1.0, 1.0, # with
\* nothing after the last token.
ScenarioRun == IregRun /\ inDesc.scenario /\ ~inDesc.ws

\* C9 as claimed: the scenario input gives numPoints = 1, fixed = [0, 0, 0]
\* and an empty moving sequence.
C9_Claimed ==
    (ScenarioRun /\ ReaderReturned) =>
        /\ readPair.numPoints = 1
        /\ readPair.fixed = << 0, 0, 0 >>
        /\ readPair.moving = << >>

\* C9 as amended: the scenario input gives numPoints = 2, fixed =
\* [1, 1, 1, 0, 0, 0] (the six values after the count token, reversed) and
\* an empty moving sequence.
C9_ScenarioResult ==
    (ScenarioRun /\ ReaderReturned) =>
        /\ readPair.numPoints = 2
        /\ readPair.fixed = << 1, 1, 1, 0, 0, 0 >>
        /\ readPair.moving = << >>

C9_Witness ==
    /\ ScenarioRun /\ ReaderReturned
    /\ inFile.toks = ScenarioTokens
    /\ Len(coordsVector) = 6
    /\ readPair.numPoints = 2

\* The writer calls main makes for its input and output types.
ExpectedWriters ==
    IF outputType = "tfx_lmk" THEN << "writeLandmarksTransformix" >>
    ELSE IF outputType = "slr_fid"
    THEN << "writeLandmarksSlicer:fixed" >>
         \o (IF inputType = "ix_pp" THEN << "writeLandmarksSlicer:moving" >>
             ELSE << >>)
    ELSE IF outputType = "std_txt"
    THEN << "writeLandmarksText:fixed" >>
         \o (IF inputType = "ix_pp" THEN << "writeLandmarksText:moving" >>
             ELSE << >>)
    ELSE << >>

ExpectedFiles ==
    IF outputType = "tfx_lmk" THEN << "/out/pairs_transformix.txt" >>
    ELSE IF outputType = "slr_fid"
    THEN << "/out/pairs_fixed_slicer.fcsv" >>
         \o (IF inputType = "ix_pp" THEN << "/out/pairs_moving_slicer.fcsv" >>
             ELSE << >>)
    ELSE IF outputType = "std_txt"
    THEN << "/out/pairs_fixed_landmarks.txt" >>
         \o (IF inputType = "ix_pp" THEN << "/out/pairs_moving_landmarks.txt" >>
             ELSE << >>)
    ELSE << >>

\* The writer calls made so far (the first call of main is the reader).
WriterCalls == IF calls = << >> THEN << >> ELSE Tail(calls)

IsPrefix(u, v) == Len(u) <= Len(v) /\ u = SubSeq(v, 1, Len(u))

\* C10: for slr_fid and std_txt the fixed-set writer is called exactly once
\* and the moving-set writer once more, after it, exactly when in_type is
\* ix_pp (two files from a point-pair source, one from a registration
\* list); for tfx_lmk exactly one writer is called.
C10_WriterCalls ==
    /\ IsPrefix(WriterCalls, ExpectedWriters)
    /\ Len(outFiles) = Len(WriterCalls)
    /\ (pc = "return" \/ exitStatus = "EXIT_SUCCESS") =>
          /\ WriterCalls = ExpectedWriters
          /\ [i \in 1..Len(outFiles) |-> outFiles[i].name] = ExpectedFiles

C10_Witness ==
    /\ pc = "exit" /\ exitStatus = "EXIT_SUCCESS"
    /\ outputType = "slr_fid" /\ inputType = "ix_pp"
    /\ calls = << "readLandmarksIx", "writeLandmarksSlicer:fixed",
                  "writeLandmarksSlicer:moving" >>
    /\ Len(outFiles) = 2

(***************************************************************************)
(* Error handling.                                                         *)
(***************************************************************************)
\* C11: when in_type is ireg and out_type is tfx_lmk, main exits with the
\* failure status before a reader or a writer is invoked: no call is made,
\* no input document is opened and no output file is created.
C11_UnsupportedPairing ==
    (inputType = "ireg" /\ outputType = "tfx_lmk") =>
        /\ pc \in {"main", "exit"}
        /\ calls = << >>
        /\ outFiles = << >>
        /\ openDocs = {}
        /\ landmarkCoords = ClosedStream /\ pointPairs = ClosedStream
        /\ pc = "exit" => exitStatus = "EXIT_FAILURE"

C11_Witness ==
    /\ inputType = "ireg" /\ outputType = "tfx_lmk"
    /\ pc = "exit" /\ exitStatus = "EXIT_FAILURE"
    /\ calls = << >> /\ outFiles = << >>

\* An in_type or an out_type that is none of the recognised values.
UnrecognisedType ==
    \/ inputType \notin {"ix_pp", "ireg"}
    \/ outputType \notin {"tfx_lmk", "slr_fid", "std_txt"}

\* The process has ended with a status other than zero.
ExitedNonZero == pc = "exit" /\ exitStatus \in {"EXIT_FAILURE", "abort"}

\* C12 as claimed: a run with an unrecognised in_type or out_type exits with
\* a non-zero status, whatever the state or content of the input file, and
\* creates no output file.
C12_Claimed ==
    /\ [](UnrecognisedType => outFiles = << >>)
    /\ UnrecognisedType ~> ExitedNonZero

\* A run that calls a reader on an input document that cannot be opened,
\* with an out_type for which main has a writer.
InputNotOpened ==
    /\ ~inOpens
    /\ inputType \in {"ix_pp", "ireg"}
    /\ outputType \in {"tfx_lmk", "slr_fid", "std_txt"}
    /\ ~(inputType = "ireg" /\ outputType = "tfx_lmk")

\* C13 as claimed: when the input document cannot be opened the run still
\* terminates: the reader returns, the writers run and the process exits
\* with status zero; it never aborts.
C13_Claimed ==
    /\ [](InputNotOpened => exitStatus # "abort")
    /\ InputNotOpened ~>
           (pc = "exit" /\ exitStatus = "EXIT_SUCCESS" /\ Len(calls) >= 2)

\* readLandmarksIx has tried to open a metadata document that cannot be
\* opened.
MetadataNotOpened == pc = "ix_mhd" /\ pathMhdFixed \notin disk

\* C14 as claimed: when the metadata document cannot be opened,
\* readLandmarksIx does not abort and returns a set whose offsets and
\* spacings are all zero and whose image-dimension string is empty.
C14_Claimed ==
    /\ [](MetadataNotOpened => exitStatus # "abort")
    /\ MetadataNotOpened ~>
           (/\ ReaderReturned
            /\ readPair.offsets = << 0, 0, 0 >>
            /\ readPair.spacings = << 0, 0, 0 >>
            /\ readPair.imgDims = "")

(***************************************************************************)
(* readLandmarksIreg.                                                      *)
(***************************************************************************)
\* C15 as claimed: for every registration-list document, whatever its number
\* of tokens, the set returned by readLandmarksIreg has a fixed sequence
\* whose length is an exact multiple of 3 and numPoints = fixed.length / 3.
C15_Claimed ==
    (IregRun /\ ReaderReturned) =>
        /\ Len(readPair.fixed) % 3 = 0
        /\ 3 * readPair.numPoints = Len(readPair.fixed)

\* The triples of v in reverse order, the scalars of each triple in their
\* order.
TripleWise(v) ==
    [i \in 1..Len(v) |-> v[Len(v) - 3 * ((i - 1) \div 3) - 3 + ((i - 1) % 3) + 1]]

\* C16 as claimed: fixed is the triple-wise reversal of the retained values
\* (coordsVector after the removals): t_N, ..., t_1 with the three scalars
\* of each triple in document order.
C16_Claimed ==
    (IregRun /\ ReaderReturned /\ Len(coordsVector) % 3 = 0) =>
        readPair.fixed = TripleWise(coordsVector)

\* C16 as amended: fixed is the scalar-wise reversal of the retained values,
\* v_M, ..., v_1: the triples are in reverse order and the scalars of each
\* triple are reversed too.  For a document of a count, 3n coordinates and
\* a trailing token, with no whitespace at its end, the retained values are
\* the 3n coordinates in document order.
C16_ScalarReversal ==
    (IregRun /\ ReaderReturned) =>
        /\ Len(readPair.fixed) = Len(coordsVector)
        /\ \A i \in 1..Len(coordsVector) :
               readPair.fixed[i] = coordsVector[Len(coordsVector) + 1 - i]
        /\ (~inDesc.scenario /\ inDesc.count /\ inDesc.artifact /\ ~inDesc.ws) =>
               /\ Len(readPair.fixed) = 3 * inDesc.n
               /\ \A i \in 1..(3 * inDesc.n) :
                      readPair.fixed[i] = IregCoord(3 * inDesc.n + 1 - i)

C16_Witness ==
    /\ IregRun /\ ReaderReturned
    /\ ~inDesc.scenario /\ inDesc.count /\ inDesc.artifact /\ ~inDesc.ws
    /\ coordsVector = << 11, 12, 13, 14, 15, 16 >>
    /\ readPair.fixed = << 16, 15, 14, 13, 12, 11 >>

(***************************************************************************)
(* readLandmarksIx on documents with a faulty token.                       *)
(***************************************************************************)
\* A run of readLandmarksIx on a document one of whose tokens does not match
\* the expected key.
FaultyIxRun == inputType = "ix_pp" /\ inDesc.kind = "ix_fault" /\ inOpens

\* C17 as claimed: a token whose key prefix does not match the expected key,
\* a token shorter than the expected prefix included, never aborts the run.
C17_Claimed == FaultyIxRun => exitStatus # "abort"

(***************************************************************************)
(* Discarded records.                                                      *)
(***************************************************************************)
\* The number of tokens of a record: Distinctiveness, ManuallyChosen,
\* SqDiffRegion, VeryUnsure, six coordinates and, when present, a
\* SystemGuess after each axis.
RecordLen(rec) == 10 + (IF rec.sg THEN 3 ELSE 0)

\* The number of tokens before record n + 1 (from 1): the two path lines and
\* the first n records.
RECURSIVE TokensUpTo(_, _)
TokensUpTo(recs, n) ==
    IF n = 0 THEN 2 ELSE TokensUpTo(recs, n - 1) + RecordLen(recs[n])

\* A record the document marks as manually chosen and very unsure.
UnsureManual(rec) == rec.man # "0" /\ rec.unsure # "0"

\* v without the triples of the unsure manually chosen records among the
\* first n records, v holding one triple per record.
RECURSIVE WithoutUnsure(_, _, _)
WithoutUnsure(v, recs, n) ==
    IF n = 0 THEN << >>
    ELSE WithoutUnsure(v, recs, n - 1)
         \o (IF UnsureManual(recs[n]) THEN << >>
             ELSE SubSeq(v, 3 * (n - 1) + 1, 3 * n))

\* What the reader returns with keep_all = 1: for every record of the
\* document in order, the converted coordinates, stored (z, y, x).
RECURSIVE AllStored(_, _)
AllStored(Voxel(_, _), n) ==
    IF n = 0 THEN << >>
    ELSE AllStored(Voxel, n - 1)
         \o << Affine(Voxel(n - 1, 2), 2), Affine(Voxel(n - 1, 1), 1),
               Affine(Voxel(n - 1, 0), 0) >>

\* C18: a discarded record consumes exactly the tokens a kept record would
\* consume, every SystemGuess token included: after each pass of the loop
\* the stream is at a record boundary of the document, and the coordinates
\* read so far are those of the records kept among the ones before it.  So
\* the set returned with keep_all = 0 is the set returned with keep_all = 1
\* with the triples of the unsure manually chosen records removed.
C18_DiscardAligned ==
    /\ (ValidIxRun /\ pc = "ix_points") =>
           \E n \in 0..Len(inDesc.recs) :
               /\ pointPairs.pos = TokensUpTo(inDesc.recs, n) + 1
               /\ Len(fixedCoordsVector)
                      = 3 * Len(KeptUpTo(inDesc.recs, keep_all, n))
               /\ Len(movingCoordsVector) = Len(fixedCoordsVector)
    /\ (ValidIxRun /\ ReaderReturned) =>
           LET n == Len(inDesc.recs)
               allFixed == AllStored(FixedVoxel, n)
               allMoving == AllStored(MovingVoxel, n)
           IN IF keep_all = "0"
              THEN /\ readPair.fixed = WithoutUnsure(allFixed, inDesc.recs, n)
                   /\ readPair.moving = WithoutUnsure(allMoving, inDesc.recs, n)
              ELSE /\ readPair.fixed = allFixed
                   /\ readPair.moving = allMoving

C18_Witness ==
    /\ ValidIxRun /\ ReaderReturned /\ keep_all = "0"
    /\ Len(inDesc.recs) = 2
    /\ UnsureManual(inDesc.recs[1]) /\ inDesc.recs[1].sg
    /\ ~UnsureManual(inDesc.recs[2])
    /\ Len(readPair.fixed) = 3
    /\ readPair.fixed[3] = Affine(FixedVoxel(1, 0), 0)
    /\ readPair.moving[3] = Affine(MovingVoxel(1, 0), 0)
    /\ pointPairs.pos = Len(inFile.toks) + 1

(***************************************************************************)
(* Open documents.                                                         *)
(***************************************************************************)
\* C19 as claimed: at every point of a run at most one document is open.
C19_Claimed == Cardinality(openDocs) <= 1

\* C19 as amended: at most two documents are open, and two only inside
\* readLandmarksIx: the point-pair input, read to its end, stays open while
\* the metadata document is open, and both are closed before the reader
\* returns.  The registration list is closed before its reader returns, no
\* input document is open during the write phase (each writer opens, writes
\* and closes its own file), and none is open when main returns.
C19_OpenDocuments ==
    /\ openDocs \subseteq {"pointPairs", "fixedMhd", "landmarkCoords"}
    /\ Cardinality(openDocs) <= 2
    /\ "fixedMhd" \in openDocs =>
           /\ pc \in {"ix_mhd", "ix_convert"} \/ exitStatus = "abort"
           /\ "pointPairs" \in openDocs /\ pointPairs.eof
    /\ "landmarkCoords" \in openDocs => openDocs = {"landmarkCoords"}
    /\ pc \in {"write", "write_moving", "return"} => openDocs = {}
    /\ (pc = "exit" /\ exitStatus # "abort") => openDocs = {}

C19_Witness ==
    /\ pc = "ix_mhd"
    /\ openDocs = {"pointPairs", "fixedMhd"}
    /\ pointPairs.eof /\ ~fixedMhd.fail

(***************************************************************************)
(* The metadata document.                                                  *)
(***************************************************************************)
\* C20 as claimed: the geometry read from the metadata document is the same
\* for every order of its lines, with or without a newline after the last
\* line, and lines with unknown keys change nothing: it is always the
\* DimSize, Offset and ElementSpacing of the document's lines.
C20_Claimed ==
    (ValidIxRun /\ ReaderReturned) =>
        /\ readPair.imgDims = "40 50 60"
        /\ readPair.offsets = << 7, 11, 13 >>
        /\ readPair.spacings = << 2, 3, 5 >>

(***************************************************************************)
(* The metadata document that is opened.                                   *)
(***************************************************************************)
\* The metadata path readLandmarksIx derives from the first token.
FixedPathOf(d) == MhdPathOf(FixedPathLine(d.hdr), CharAt(FixedPathLine(d.hdr), 7))

\* The messages printed when a metadata document is opened.
MhdOpenings ==
    {i \in 1..Len(console) :
        Len(console[i]) >= 25
        /\ SubSeq(console[i], 1, 25) = "Opening MetaHeader file: "}

\* C21: readLandmarksIx opens exactly one metadata document, the one named
\* by the first token; the second token is read and kept but no document
\* derived from it is opened, and the geometry of the fixed image's document
\* (never that of the moving image's) is applied to both coordinate sets.
C21_FixedMetadataOnly ==
    ValidIxRun =>
        /\ openDocs \subseteq {"pointPairs", "fixedMhd"}
        /\ Cardinality(MhdOpenings) <= 1
        /\ \A i \in MhdOpenings :
               console[i] = "Opening MetaHeader file: " \o FixedPathOf(inDesc)
        /\ pc \in {"ix_points", "ix_mhd", "ix_convert"} \/ ReaderReturned =>
               /\ pathMhdFixed = FixedPathOf(inDesc)
               /\ pathMhdMoving = MovingPathLine
        /\ pc \in {"ix_mhd", "ix_convert"} \/ ReaderReturned =>
               Cardinality(MhdOpenings) = 1
        /\ ReaderReturned =>
               /\ readPair.imgDims \in {"40 50 60", ""}
               /\ readPair.offsets \in {<< 7, 11, 13 >>, << 0, 0, 0 >>}
               /\ readPair.spacings \in {<< 2, 3, 5 >>, << 0, 0, 0 >>}
               /\ mhdFile.nl =>
                      /\ readPair.imgDims = "40 50 60"
                      /\ \A j \in 1..Len(Kept) : \A a \in Axes :
                             /\ readPair.fixed[3 * (j - 1) + (2 - a) + 1]
                                    = FixedVoxel(Kept[j], a) * << 2, 3, 5 >>[a + 1]
                                      + << 7, 11, 13 >>[a + 1]
                             /\ readPair.moving[3 * (j - 1) + (2 - a) + 1]
                                    = MovingVoxel(Kept[j], a) * << 2, 3, 5 >>[a + 1]
                                      + << 7, 11, 13 >>[a + 1]

C21_Witness ==
    /\ ValidIxRun /\ ReaderReturned
    /\ inDesc.hdr = "Z"
    /\ pathMhdFixed = "/rdo/home/cguy/data/fixed.mhd"
    /\ pathMhdMoving = "Scan_1=/data/moving.mhd"
    /\ "/data/moving.mhd" \in disk
    /\ Cardinality(MhdOpenings) = 1
    /\ readPair.spacings = << 2, 3, 5 >> /\ readPair.offsets = << 7, 11, 13 >>
    /\ Len(readPair.moving) >= 3
    /\ readPair.moving[3] = MovingVoxel(Kept[1], 0) * 2 + 7

(***************************************************************************)
(* The rows of the Slicer and of the plain-text files.                     *)
(***************************************************************************)
\* The indices of the newline items of a sequence of items.
Newlines(items) == {r \in 1..Len(items) : items[r] = NL}

\* C22: the Slicer writer writes, after the header, exactly numPoints rows
\* labelled 1, 2, ..., numPoints in that order; a newline stands before
\* every row but the first and none follows the last row.  The plain-text
\* writer writes the count line numPoints and then exactly numPoints
\* coordinate lines, each ended by a newline.
C22_RowLayout ==
    LET n == readPair.numPoints
    IN /\ \A i \in FilesNamed("_fixed_slicer.fcsv")
                   \cup FilesNamed("_moving_slicer.fcsv") :
            LET h == Len(SlicerHeader(readPair))
                rows == SubSeq(outFiles[i].items, h + 1, Len(outFiles[i].items))
            IN /\ SubSeq(outFiles[i].items, 1, h) = SlicerHeader(readPair)
               /\ Len(rows) = IF n = 0 THEN 0 ELSE 9 * n - 1
               /\ \A k \in 1..n :
                      /\ rows[9 * (k - 1) + 1] = Num(k)
                      /\ rows[9 * k - 1] = Lit(", 0, 1")
               /\ Newlines(rows) = {9 * (k - 1) : k \in 2..n}
       /\ \A i \in FilesNamed("_fixed_landmarks.txt")
                   \cup FilesNamed("_moving_landmarks.txt") :
            LET rows == SubSeq(outFiles[i].items, 4, Len(outFiles[i].items))
            IN /\ SubSeq(outFiles[i].items, 1, 3)
                      = << Lit("point\n"), Num(n), NL >>
               /\ Len(rows) = 6 * n
               /\ Newlines(rows) = {6 * k : k \in 1..n}
               /\ \A r \in 1..Len(rows) : r % 2 = 1 => IsNum(rows[r])

C22_Witness ==
    /\ pc = "exit" /\ exitStatus = "EXIT_SUCCESS"
    /\ outputType = "slr_fid" /\ inputType = "ix_pp"
    /\ readPair.numPoints = 2
    /\ Len(outFiles) = 2
    /\ LET h == Len(SlicerHeader(readPair))
       IN /\ Len(outFiles[2].items) = h + 17
          /\ outFiles[2].items[h + 1] = Num(1)
          /\ outFiles[2].items[h + 9] = NL
          /\ outFiles[2].items[h + 10] = Num(2)
          /\ outFiles[2].items[h + 17] = Lit(", 0, 1")

(***************************************************************************)
(* The indices the writers read.                                           *)
(***************************************************************************)
\* The writer call main makes next throws std::out_of_range.
NextWriterThrows ==
    \/ /\ pc = "write" /\ outputType = "tfx_lmk"
       /\ writeLandmarksTransformix(readPair, pathInput, pathOutput).threw
    \/ /\ pc = "write" /\ outputType = "slr_fid"
       /\ writeLandmarksSlicer(readPair, pathInput, pathOutput, TRUE).threw
    \/ /\ pc = "write_moving" /\ outputType = "slr_fid"
       /\ writeLandmarksSlicer(readPair, pathInput, pathOutput, FALSE).threw
    \/ /\ pc = "write" /\ outputType = "std_txt"
       /\ writeLandmarksText(readPair, pathInput, pathOutput, TRUE).threw
    \/ /\ pc = "write_moving" /\ outputType = "std_txt"
       /\ writeLandmarksText(readPair, pathInput, pathOutput, FALSE).threw

\* The writer calls that read the moving set.
ReadsMoving ==
    {"writeLandmarksTransformix", "writeLandmarksSlicer:moving",
     "writeLandmarksText:moving"}

\* C23: for every set a reader returns and every writer call main makes on
\* it, every index the writer reads (i, i+1, i+2 for i < numDims *
\* numPoints) is inside the sequence read: the fixed sequence has at least
\* 3 * numPoints elements, a writer that reads the moving set is called only
\* on the set of readLandmarksIx, whose moving sequence is as long as the
\* fixed one, and no writer call throws.
C23_WriterIndices ==
    /\ ReaderReturned =>
           /\ readPair.numDims = 3
           /\ readPair.numPoints >= 0
           /\ 3 * readPair.numPoints <= Len(readPair.fixed)
           /\ inputType = "ix_pp" => 3 * readPair.numPoints <= Len(readPair.moving)
    /\ \A i \in 1..Len(calls) :
           calls[i] \in ReadsMoving => inputType = "ix_pp"
    /\ ~NextWriterThrows
    /\ exitStatus = "abort" => WriterCalls = << >>

C23_Witness ==
    /\ pc = "exit" /\ exitStatus = "EXIT_SUCCESS"
    /\ inputType = "ireg" /\ outputType = "std_txt"
    /\ readPair.numPoints = 2
    /\ Len(readPair.fixed) >= 6
    /\ readPair.moving = << >>
    /\ calls = << "readLandmarksIreg", "writeLandmarksText:fixed" >>

(***************************************************************************)
(* Truncated point-pair documents.                                         *)
(***************************************************************************)
\* A run of readLandmarksIx on a document that ends in the middle of a
\* record, after the ManuallyChosen token or after some of the coordinate
\* tokens.
TruncatedRun ==
    /\ inputType = "ix_pp" /\ inDesc.kind = "ix_trunc" /\ inOpens
    /\ inDesc.cut = 2 \/ inDesc.cut >= 5

\* C24 as claimed: on a document that ends in the middle of a record,
\* readLandmarksIx does not abort, and it returns fixed and moving of equal
\* length, a multiple of 3: the complete record and, of the truncated one,
\* nothing or one full triple.
C24_Claimed ==
    TruncatedRun =>
        /\ exitStatus # "abort"
        /\ ReaderReturned =>
               /\ Len(readPair.fixed) = Len(readPair.moving)
               /\ Len(readPair.fixed) \in {3, 6}

=============================================================================
